---------------------------- MODULE Spec2Model ----------------------------
(***************************************************************************)
(* Model of the Manufacturing Website API (src/main.py, src/schemas.py):   *)
(* the capability listing with its static fallback and lazy seeding, and   *)
(* the inquiry submission.  The document store (module `database`) is the  *)
(* shared state; every store operation may raise.                          *)
(***************************************************************************)
EXTENDS Integers, Sequences, FiniteSets, TLC

VARIABLES
    dbState,    \* outcome of `from database import ...`: "unloadable", "null" (db is None), "ok"
    store,      \* the document store: collection name -> sequence of documents (insertion order)
    nextId,     \* next identifier the store assigns to an inserted document
    capResp,    \* response of the last list_capabilities() call
    inqResp,    \* response of the last create_inquiry() call
    capOps,     \* store operations performed by the last list_capabilities() call, in order
    inqOps,     \* store operations performed by the last create_inquiry() call, in order
    issued,     \* successful create_inquiry responses so far: <<id, payload>> pairs
    pc,         \* concurrent calls: position of each call in list_capabilities
    idx,        \* concurrent calls: loop index over `defaults` of each call
    first,      \* concurrent calls: len(items) seen by the first read (-1: not read yet)
    cres        \* concurrent calls: response of each call

vars == <<dbState, store, nextId, capResp, inqResp, capOps, inqOps, issued, pc, idx, first, cres>>

seqVars == <<capResp, inqResp, capOps, inqOps, issued>>
concVars == <<pc, idx, first, cres>>

-----------------------------------------------------------------------------
(* Bounds of the model *)

\* create_inquiry calls that reach the store in one behaviour
MaxInquiries == 2

\* longest error message a failing insert raises
MaxErrLen == 125

-----------------------------------------------------------------------------
(* Values *)

None == "None"

Min(a, b) == IF a < b THEN a ELSE b

\* str(e)[:120] cuts at this many characters
TruncLen == 120

\* the static fallback list
StaticDefaultsWithCoating ==
    << [name |-> "CNC Machining", summary |-> "Precision milling and turning for metals and plastics", icon |-> "settings"],
       [name |-> "Sheet Metal Fabrication", summary |-> "Laser cutting, bending, and assembly for prototypes to production", icon |-> "square"],
       [name |-> "Welding", summary |-> "Certified MIG/TIG welding for structural and aesthetic parts", icon |-> "hammer"],
       [name |-> "Powder Coating", summary |-> "Durable finishes with a wide range of colors and textures", icon |-> "paintbrush"] >>
StaticDefaults ==
    << [name |-> "CNC Machining", summary |-> "Precision milling and turning for metals and plastics", icon |-> "settings"],
       [name |-> "Sheet Metal Fabrication", summary |-> "Laser cutting, bending, and assembly for prototypes to production", icon |-> "square"],
       [name |-> "Welding", summary |-> "Certified MIG/TIG welding for structural and aesthetic parts", icon |-> "hammer"] >>

\* `defaults`, the records seeded into an empty store
defaults ==
    << [name |-> "CNC Machining", summary |-> "Precision milling and turning for metals and plastics", icon |-> "settings"],
       [name |-> "Sheet Metal Fabrication", summary |-> "Laser cutting, bending, and assembly for prototypes to production", icon |-> "square"],
       [name |-> "Welding", summary |-> "Certified MIG/TIG welding for structural and aesthetic parts", icon |-> "hammer"],
       [name |-> "Powder Coating", summary |-> "Durable finishes with a wide range of colors and textures", icon |-> "paintbrush"] >>

ConfirmationMessage == "Inquiry received. Our team will contact you shortly."

\* Inquiry payloads a client submits (already validated)
Payloads ==
    { [name |-> "Ada", email |-> "ada@example.com", phone |-> None, company |-> None,
       message |-> "Need 40 brackets", service |-> None],
      [name |-> "Bo", email |-> "bo@example.com", phone |-> "555-0100", company |-> "Acme",
       message |-> "Quote for welding", service |-> "Welding"] }

\* an error message of n characters (character i is the code i % 10)
ErrMsg(n) == [i \in 1..n |-> i % 10]
ErrMsgs == { ErrMsg(n) : n \in {0, 7, TruncLen - 1, TruncLen, TruncLen + 1, MaxErrLen} }

\* capability collections the store may hold before the first request
InitialCapabilities ==
    { << >>,
      << [_id |-> 1, name |-> "Laser Engraving", summary |-> "Marking of metals"] >>,
      << [_id |-> 1, name |-> "Anodizing", summary |-> "Aluminium finishes", icon |-> "droplet"],
         [_id |-> 2, name |-> "Welding", summary |-> "Certified MIG/TIG welding for structural and aesthetic parts", icon |-> None] >> }

-----------------------------------------------------------------------------
(* Pure functions of main.py and schemas.py *)

\* serialize_doc: `_id` is popped and stored as the string `id`
serialize_doc(doc) ==
    IF "_id" \in DOMAIN doc
    THEN [k \in (DOMAIN doc \ {"_id"}) \cup {"id"} |->
            IF k = "id" THEN ToString(doc._id) ELSE doc[k]]
    ELSE doc

\* Capability(**d): name and summary required, icon optional, other keys ignored
Capability(d) ==
    [name |-> d.name, summary |-> d.summary,
     icon |-> IF "icon" \in DOMAIN d THEN d.icon ELSE None]

\* [Capability(**serialize_doc(d)) for d in docs]
Items(docs) == [i \in 1..Len(docs) |-> Capability(serialize_doc(docs[i]))]

\* len(items) == 0
NeedsSeedAlways(items) == TRUE
NeedsSeedNever(items) == FALSE
NeedsSeedTopUp(items) == Len(items) < 4
NeedsSeed(items) == Len(items) = 0

\* db is None
HandleIsNullNever(db) == FALSE
HandleIsNull(db) == db = "null"

\* str(e)[:120]
TruncateNot(msg) == msg
Truncate(msg) == SubSeq(msg, 1, Min(TruncLen, Len(msg)))

-----------------------------------------------------------------------------
(* The store module `database` *)

\* create_document(collection, data), successful: the document is appended with a
\* fresh identifier, which is returned as a string
create_document(st, nid, coll, data) ==
    [store |-> [st EXCEPT ![coll] = Append(@, data @@ [_id |-> nid])],
     nextId |-> nid + 1,
     id |-> ToString(nid)]

\* get_documents(collection), successful: the collection in insertion order
get_documents(st, coll) == st[coll]

GetOp(coll, raised) == [op |-> "get_documents", coll |-> coll, raised |-> raised]
CreateOp(coll, data, raised, err) ==
    [op |-> "create_document", coll |-> coll, data |-> data, raised |-> raised, err |-> err]


-----------------------------------------------------------------------------
(* list_capabilities *)

CapReturn(items) == [kind |-> "return", body |-> items]
CapRaise == [kind |-> "raise", body |-> << >>]

\* for d in defaults: try: create_document("capability", d) except Exception: pass
\* `fails` holds the positions in `defaults` whose insert raises
RECURSIVE SeedLoopBreak(_, _, _, _, _)
SeedLoopBreak(st, nid, log, i, fails) ==
    IF i > Len(defaults) THEN [store |-> st, nextId |-> nid, ops |-> log]
    ELSE IF i \in fails
         THEN [store |-> st, nextId |-> nid,
               ops |-> Append(log, CreateOp("capability", defaults[i], TRUE, << >>))]
         ELSE LET r == create_document(st, nid, "capability", defaults[i])
              IN  SeedLoopBreak(r.store, r.nextId,
                                Append(log, CreateOp("capability", defaults[i], FALSE, << >>)),
                                i + 1, fails)

RECURSIVE SeedLoop(_, _, _, _, _)
SeedLoop(st, nid, log, i, fails) ==
    IF i > Len(defaults) THEN [store |-> st, nextId |-> nid, ops |-> log]
    ELSE IF i \in fails
         THEN SeedLoop(st, nid, Append(log, CreateOp("capability", defaults[i], TRUE, << >>)),
                       i + 1, fails)
         ELSE LET r == create_document(st, nid, "capability", defaults[i])
              IN  SeedLoop(r.store, r.nextId,
                           Append(log, CreateOp("capability", defaults[i], FALSE, << >>)),
                           i + 1, fails)

\* The whole handler.  q1raise / q2raise: the first read / the re-read raises.
list_capabilities(st, nid, db, q1raise, fails, q2raise) ==
    IF db = "unloadable"
    THEN [store |-> st, nextId |-> nid, ops |-> << >>, resp |-> CapReturn(StaticDefaults)]
    ELSE IF HandleIsNull(db)
    THEN [store |-> st, nextId |-> nid, ops |-> << >>, resp |-> CapReturn(StaticDefaults)]
    ELSE IF q1raise
    THEN [store |-> st, nextId |-> nid, ops |-> << GetOp("capability", TRUE) >>, resp |-> CapRaise]
    ELSE LET items == Items(get_documents(st, "capability"))
             log1  == << GetOp("capability", FALSE) >>
         IN  IF ~NeedsSeed(items)
             THEN [store |-> st, nextId |-> nid, ops |-> log1, resp |-> CapReturn(items)]
             ELSE LET s == SeedLoop(st, nid, log1, 1, fails)
                  IN  IF q2raise
                      THEN [store |-> s.store, nextId |-> s.nextId,
                            ops |-> Append(s.ops, GetOp("capability", TRUE)), resp |-> CapRaise]
                      ELSE [store |-> s.store, nextId |-> s.nextId,
                            ops |-> Append(s.ops, GetOp("capability", FALSE)),
                            resp |-> CapReturn(Items(get_documents(s.store, "capability")))]

\* The outcomes of the store operations are the inputs of a call; only those of
\* operations the call reaches are drawn.
ReachesStore == dbState # "unloadable" /\ ~HandleIsNull(dbState)
ReachesSeeding(q1raise) ==
    ReachesStore /\ ~q1raise /\ NeedsSeed(Items(get_documents(store, "capability")))

ListCapabilities ==
    \E q1raise \in (IF ReachesStore THEN BOOLEAN ELSE {FALSE}) :
    \E fails \in (IF ReachesSeeding(q1raise) THEN SUBSET (1..Len(defaults)) ELSE {{}}),
       q2raise \in (IF ReachesSeeding(q1raise) THEN BOOLEAN ELSE {FALSE}) :
        LET r == list_capabilities(store, nextId, dbState, q1raise, fails, q2raise)
        IN  /\ store' = r.store
            /\ nextId' = r.nextId
            /\ capOps' = r.ops
            /\ capResp' = r.resp
            /\ UNCHANGED <<dbState, inqResp, inqOps, issued, concVars>>

-----------------------------------------------------------------------------
(* create_inquiry *)

InquiryCollectionWrong == "capability"
InquiryCollection == "inquiry"

HttpError(code, detail) == [kind |-> "http_error", status_code |-> code, detail |-> detail]

\* what create_document("inquiry", payload) does: it returns, or raises an exception
\* whose str() is err
InsertOutcomes ==
    {[raised |-> FALSE, err |-> << >>]} \cup {[raised |-> TRUE, err |-> m] : m \in ErrMsgs}

\* The whole handler.
create_inquiry(st, nid, db, payload, raises, err) ==
    IF db = "unloadable"
    THEN [store |-> st, nextId |-> nid, ops |-> << >>,
          resp |-> HttpError(503, << "Database not configured" >>)]
    ELSE IF HandleIsNull(db)
    THEN [store |-> st, nextId |-> nid, ops |-> << >>,
          resp |-> HttpError(503, << "Database not available" >>)]
    ELSE IF raises
    THEN [store |-> st, nextId |-> nid,
          ops |-> << CreateOp(InquiryCollection, payload, TRUE, err) >>,
          resp |-> HttpError(500, << "Failed to save inquiry: ", Truncate(err) >>)]
    ELSE LET r == create_document(st, nid, InquiryCollection, payload)
         IN  [store |-> r.store, nextId |-> r.nextId,
              ops |-> << CreateOp(InquiryCollection, payload, FALSE, << >>) >>,
              resp |-> [kind |-> "return", id |-> r.id, message |-> ConfirmationMessage]]

CreateInquiry ==
    /\ Len(store.inquiry) < MaxInquiries
    /\ \E payload \in Payloads, out \in InsertOutcomes :
        LET r == create_inquiry(store, nextId, dbState, payload, out.raised, out.err)
        IN  /\ store' = r.store
            /\ nextId' = r.nextId
            /\ inqOps' = r.ops
            /\ inqResp' = r.resp
            /\ issued' = IF r.resp.kind = "return"
                         THEN Append(issued, << r.resp.id, payload >>)
                         ELSE issued
            /\ UNCHANGED <<dbState, capResp, capOps, concVars>>

-----------------------------------------------------------------------------
(* One request at a time *)
(* The outcome of importing `database` and the value of db are fixed when the  *)
(* process starts, so dbState is chosen in Init and never changes.              *)

\* the two list_capabilities() calls that run concurrently in SpecC
Calls == {1, 2}

Init ==
    /\ dbState \in {"unloadable", "null", "ok"}
    /\ \E caps \in InitialCapabilities :
          /\ store = [capability |-> caps, inquiry |-> << >>]
          /\ nextId = Len(caps) + 1
    /\ capResp = [kind |-> "none", body |-> << >>]
    /\ inqResp = [kind |-> "none"]
    /\ capOps = << >>
    /\ inqOps = << >>
    /\ issued = << >>
    /\ pc = [p \in Calls |-> "idle"]
    /\ idx = [p \in Calls |-> 1]
    /\ first = [p \in Calls |-> -1]
    /\ cres = [p \in Calls |-> [kind |-> "none", body |-> << >>]]

Next == ListCapabilities \/ CreateInquiry

Spec == Init /\ [][Next]_vars


\* the same, on a store that holds no capability record yet
InitEmpty == Init /\ store.capability = << >>

SpecEmpty == InitEmpty /\ [][Next]_vars

-----------------------------------------------------------------------------
(* Concurrent list_capabilities() calls: the endpoint is a plain `def`, which  *)
(* the framework runs on worker threads; each store operation is one step.     *)

\* the import and the `db is None` test
CBegin(p) ==
    /\ pc[p] = "idle"
    /\ IF dbState = "unloadable" \/ HandleIsNull(dbState)
       THEN /\ pc' = [pc EXCEPT ![p] = "done"]
            /\ cres' = [cres EXCEPT ![p] = CapReturn(StaticDefaults)]
       ELSE /\ pc' = [pc EXCEPT ![p] = "read"]
            /\ UNCHANGED cres
    /\ UNCHANGED <<dbState, store, nextId, seqVars, idx, first>>

\* docs = get_documents("capability"); items = [...]; if len(items) == 0
CRead(p) ==
    /\ pc[p] = "read"
    /\ \E raise \in BOOLEAN :
        IF raise
        THEN /\ pc' = [pc EXCEPT ![p] = "done"]
             /\ cres' = [cres EXCEPT ![p] = CapRaise]
             /\ UNCHANGED <<idx, first>>
        ELSE LET items == Items(get_documents(store, "capability"))
             IN  /\ first' = [first EXCEPT ![p] = Len(items)]
                 /\ IF NeedsSeed(items)
                    THEN /\ pc' = [pc EXCEPT ![p] = "seed"]
                         /\ idx' = [idx EXCEPT ![p] = 1]
                         /\ UNCHANGED cres
                    ELSE /\ pc' = [pc EXCEPT ![p] = "done"]
                         /\ cres' = [cres EXCEPT ![p] = CapReturn(items)]
                         /\ UNCHANGED idx
    /\ UNCHANGED <<dbState, store, nextId, seqVars>>

\* one iteration of `for d in defaults`
CInsert(p) ==
    /\ pc[p] = "seed"
    /\ idx[p] <= Len(defaults)
    /\ \E raise \in BOOLEAN :
        IF raise
        THEN UNCHANGED <<store, nextId>>
        ELSE LET r == create_document(store, nextId, "capability", defaults[idx[p]])
             IN  /\ store' = r.store
                 /\ nextId' = r.nextId
    /\ idx' = [idx EXCEPT ![p] = @ + 1]
    /\ pc' = [pc EXCEPT ![p] = IF idx[p] = Len(defaults) THEN "reread" ELSE "seed"]
    /\ UNCHANGED <<dbState, seqVars, first, cres>>

\* the second get_documents("capability") and the return
CReread(p) ==
    /\ pc[p] = "reread"
    /\ \E raise \in BOOLEAN :
        cres' = [cres EXCEPT ![p] =
                    IF raise THEN CapRaise
                    ELSE CapReturn(Items(get_documents(store, "capability")))]
    /\ pc' = [pc EXCEPT ![p] = "done"]
    /\ UNCHANGED <<dbState, store, nextId, seqVars, idx, first>>

NextC == \E p \in Calls : CBegin(p) \/ CRead(p) \/ CInsert(p) \/ CReread(p)

SpecC == InitEmpty /\ [][NextC]_vars


-----------------------------------------------------------------------------
(* Properties *)

\* the three static defaults and the four seeded defaults, as documented
ExpectedStatic ==
    << [name |-> "CNC Machining", summary |-> "Precision milling and turning for metals and plastics", icon |-> "settings"],
       [name |-> "Sheet Metal Fabrication", summary |-> "Laser cutting, bending, and assembly for prototypes to production", icon |-> "square"],
       [name |-> "Welding", summary |-> "Certified MIG/TIG welding for structural and aesthetic parts", icon |-> "hammer"] >>
ExpectedSeedNames == << "CNC Machining", "Sheet Metal Fabrication", "Welding", "Powder Coating" >>

IsCreate(o) == o.op = "create_document"
IsGet(o) == o.op = "get_documents"
CreatesOf(log) == SelectSeq(log, IsCreate)
GetsOf(log) == SelectSeq(log, IsGet)
Succeeded(o) == o.op = "create_document" /\ ~o.raised
SucceededOf(log) == SelectSeq(log, Succeeded)

\* a returned Capability carries exactly the name, summary and icon of a stored document
SameCapability(item, doc) ==
    /\ DOMAIN item = {"name", "summary", "icon"}
    /\ item.name = doc.name
    /\ item.summary = doc.summary
    /\ item.icon = (IF "icon" \in DOMAIN doc THEN doc.icon ELSE None)
MatchesStore(body, docs) ==
    /\ Len(body) = Len(docs)
    /\ \A i \in 1..Len(docs) : SameCapability(body[i], docs[i])

Count(docs, name) == Cardinality({i \in 1..Len(docs) : docs[i].name = name})

StoreAbsent == dbState \in {"unloadable", "null"}

\* the last list_capabilities() call read an empty store and every seed insert raised
AllSeedInsertsFailed ==
    /\ dbState = "ok"
    /\ Len(capOps) = 6
    /\ IsGet(capOps[1]) /\ ~capOps[1].raised
    /\ \A i \in 2..5 : IsCreate(capOps[i]) /\ capOps[i].raised
    /\ IsGet(capOps[6]) /\ ~capOps[6].raised
    /\ store.capability = << >>

\* C1 as stated: whatever the state of the store and whichever seed inserts fail,
\* the sequence list_capabilities() returns is never empty.
C1_NeverEmpty == capResp.kind = "return" => capResp.body # << >>

\* C1 amended: the sequence list_capabilities() returns is non-empty unless the
\* store was reachable and empty and every one of the 4 seed inserts failed; then
\* the re-read yields zero records and the empty sequence is returned.
C1_NonEmptyUnlessAllInsertsFail ==
    capResp.kind = "return" => (capResp.body # << >> \/ AllSeedInsertsFailed)

\* an empty store was seeded with some insert failing, and the re-read was returned
C1_Witness ==
    /\ dbState = "ok"
    /\ capResp.kind = "return"
    /\ capResp.body # << >>
    /\ Len(CreatesOf(capOps)) = 4
    /\ \E i \in 1..Len(capOps) : IsCreate(capOps[i]) /\ capOps[i].raised

\* C2: list_capabilities() never ends in an error visible to the caller, whatever
\* store operation fails.
C2_NeverRaises == capResp.kind # "raise"

\* C3: with the store absent (module unloadable or handle null) a call returns
\* exactly the three static defaults in order, performs no store operation,
\* changes nothing in the store and raises nothing.
C3_StaticFallback ==
    [][ (StoreAbsent /\ ListCapabilities) =>
            /\ capResp'.kind = "return"
            /\ capResp'.body = ExpectedStatic
            /\ capOps' = << >>
            /\ store' = store
            /\ nextId' = nextId ]_vars

C3_Witness ==
    /\ dbState = "null"
    /\ capResp.kind = "return"
    /\ Len(capResp.body) = 3

\* C4: with a valid handle and a store that holds at least one capability record,
\* a call inserts nothing (the store is unchanged) and, when its read succeeds,
\* returns the store's records in the store's order.
C4_NoInsertWhenNonEmpty ==
    [][ (dbState = "ok" /\ store.capability # << >> /\ ListCapabilities) =>
            /\ store' = store
            /\ nextId' = nextId
            /\ CreatesOf(capOps') = << >>
            /\ Len(GetsOf(capOps')) = 1
            /\ capResp'.kind = "return" <=> ~capOps'[1].raised
            /\ capResp'.kind = "return" => MatchesStore(capResp'.body, store.capability) ]_vars

C4_Witness ==
    /\ dbState = "ok"
    /\ capResp.kind = "return"
    /\ Len(capOps) = 1
    /\ Len(store.capability) = 2
    /\ MatchesStore(capResp.body, store.capability)

\* C5: with a valid handle and an empty store, a call whose read yields zero records
\* attempts the 4 defaults once each, in order; a failing insert neither stops the
\* later ones nor undoes the earlier ones; afterwards the store holds exactly the
\* defaults whose insert succeeded, and the sequence returned is the store's content
\* after seeding.
C5_SeedsEmptyStore ==
    [][ (dbState = "ok" /\ store.capability = << >> /\ ListCapabilities /\ ~capOps'[1].raised) =>
            LET creates == CreatesOf(capOps')
                done    == SucceededOf(capOps')
            IN  /\ Len(capOps') = 6
                /\ IsGet(capOps'[1]) /\ IsGet(capOps'[6])
                /\ Len(creates) = 4
                /\ \A i \in 1..4 :
                      /\ IsCreate(capOps'[i + 1])
                      /\ capOps'[i + 1].coll = "capability"
                      /\ capOps'[i + 1].data.name = ExpectedSeedNames[i]
                /\ Len(store'.capability) = Len(done)
                /\ \A k \in 1..Len(done) :
                      /\ "_id" \in DOMAIN store'.capability[k]
                      /\ SameCapability(done[k].data, store'.capability[k])
                /\ store'.inquiry = store.inquiry
                /\ capResp'.kind = "return" <=> ~capOps'[6].raised
                /\ capResp'.kind = "return" =>
                      /\ MatchesStore(capResp'.body, store'.capability)
                      /\ (Len(done) = 4 => Len(capResp'.body) = 4) ]_vars

\* a seeding call in which the second insert failed and a later one succeeded
C5_Witness ==
    /\ dbState = "ok"
    /\ capResp.kind = "return"
    /\ Len(capOps) = 6
    /\ capOps[3].raised /\ ~capOps[4].raised /\ ~capOps[2].raised
    /\ Len(capResp.body) = Len(store.capability)
    /\ Len(store.capability) \in {2, 3}

\* C6: create_inquiry with the store absent fails with 503, attempts no insert,
\* leaves the store unchanged and returns no success response.
C6_Unavailable ==
    [][ (StoreAbsent /\ CreateInquiry) =>
            /\ inqResp'.kind = "http_error"
            /\ inqResp'.status_code = 503
            /\ inqOps' = << >>
            /\ store' = store
            /\ nextId' = nextId
            /\ issued' = issued ]_vars

C6_Witness ==
    /\ dbState = "unloadable"
    /\ inqResp.kind = "http_error"
    /\ inqResp.status_code = 503

\* C7: every successful create_inquiry inserted exactly one record into the inquiry
\* collection; the id returned is the one the store assigned to it and identifies a
\* stored record with the submitted fields; the message is the fixed confirmation;
\* stored inquiries and successful submissions are equally many and the ids differ.
C7_InquiryStored ==
    /\ Len(store.inquiry) = Len(issued)
    /\ \A i, j \in 1..Len(issued) : i # j => issued[i][1] # issued[j][1]
    /\ \A k \in 1..Len(issued) :
          LET hits == {n \in 1..Len(store.inquiry) : ToString(store.inquiry[n]._id) = issued[k][1]}
          IN  /\ Cardinality(hits) = 1
              /\ \A n \in hits :
                    /\ DOMAIN store.inquiry[n] = DOMAIN issued[k][2] \cup {"_id"}
                    /\ \A f \in DOMAIN issued[k][2] : store.inquiry[n][f] = issued[k][2][f]
    /\ \A n \in 1..Len(store.capability) : "email" \notin DOMAIN store.capability[n]
    /\ inqResp.kind = "return" =>
          /\ DOMAIN inqResp = {"kind", "id", "message"}
          /\ inqResp.message = "Inquiry received. Our team will contact you shortly."
          /\ Len(issued) > 0
          /\ inqResp.id = issued[Len(issued)][1]
          /\ Len(inqOps) = 1

C7_Witness ==
    /\ Len(issued) = 2
    /\ inqResp.kind = "return"
    /\ issued[1][2] # issued[2][2]

\* C8: when the insert of create_inquiry raises, the call fails with 500 (not 503,
\* not success), the detail carries the fixed prefix and at most the first 120
\* characters of the error message, and the insert was attempted once.
C8_InsertFailure ==
    /\ (inqOps # << >> /\ inqOps[1].raised) =>
          /\ inqResp.kind = "http_error"
          /\ inqResp.status_code = 500
    /\ (inqResp.kind = "http_error" /\ inqResp.status_code = 500) =>
          /\ Len(inqOps) = 1
          /\ IsCreate(inqOps[1]) /\ inqOps[1].raised /\ inqOps[1].coll = "inquiry"
          /\ inqResp.detail[1] = "Failed to save inquiry: "
          /\ Len(inqResp.detail[2]) <= 120
          /\ Len(inqResp.detail[2]) = Min(120, Len(inqOps[1].err))
          /\ \A i \in 1..Len(inqResp.detail[2]) : inqResp.detail[2][i] = inqOps[1].err[i]

\* an error message longer than 120 characters was cut
C8_Witness ==
    /\ inqResp.kind = "http_error"
    /\ inqResp.status_code = 500
    /\ Len(inqOps[1].err) > 120
    /\ Len(inqResp.detail[2]) = 120

\* C9: the empty-check and the seeding are not atomic: a default is in the store
\* as many times as calls saw the store empty at most, and two concurrent calls
\* can both see it empty and leave every default twice (8 records).
C9_DuplicatesOnlyByRace ==
    /\ Len(store.capability) <= 4 * Cardinality(Calls)
    /\ \A i \in 1..4 :
          Count(store.capability, ExpectedSeedNames[i])
              <= Cardinality({p \in Calls : first[p] = 0})

C9_Witness ==
    /\ \A p \in Calls : pc[p] = "done" /\ first[p] = 0 /\ cres[p].kind = "return"
    /\ Len(store.capability) = 8
    /\ \A i \in 1..4 : Count(store.capability, ExpectedSeedNames[i]) = 2

\* C10: over non-overlapping calls on a store that starts empty, a call inserts
\* only when it finds the store empty; once the store holds a record no later call
\* changes it (a partial seed is never completed), every later call that returns
\* returns the same sequence, and the store never holds more than 4 capability
\* records nor a default twice.
C10_SeedsAtMostOnce ==
    [][ (dbState = "ok" /\ ListCapabilities) =>
            /\ store.capability # << >> =>
                  /\ store' = store
                  /\ CreatesOf(capOps') = << >>
                  /\ capResp'.kind = "return" => MatchesStore(capResp'.body, store.capability)
                  /\ (capResp.kind = "return" /\ capResp'.kind = "return") =>
                        capResp'.body = capResp.body
            /\ store'.capability # store.capability => store.capability = << >>
            /\ Len(store'.capability) <= 4
            /\ \A i \in 1..4 : Count(store'.capability, ExpectedSeedNames[i]) <= 1 ]_vars

\* a later call on a partially seeded store: it only read, and returned the partial seed
C10_Witness ==
    /\ dbState = "ok"
    /\ capResp.kind = "return"
    /\ Len(capOps) = 1
    /\ Len(store.capability) \in 1..3
    /\ MatchesStore(capResp.body, store.capability)

=============================================================================
